---- MODULE Spec2Model ----
(***************************************************************************)
(* The daily digest SMS job (src/index.js and its earlier variant          *)
(* src/unnamed/part_000): one process invocation creates a job_runs row,   *)
(* fetches the consenting users, and for each user evaluates the 7 PM      *)
(* local window, looks up daily_digest_sms for (user, local date), sends   *)
(* one SMS through Twilio and inserts the daily_digest_sms row.            *)
(*                                                                         *)
(* Strings that the code takes apart (phone numbers, e-mail addresses)     *)
(* are sequences of one-character strings; null and "" (both falsy in      *)
(* JavaScript) are the empty sequence.  Instants are minutes since         *)
(* 1970-01-01T00:00Z; a local calendar date is its day number.             *)
(***************************************************************************)
EXTENDS Integers, Sequences, FiniteSets, Bags, TLC

VARIABLES
    variant,           \* which file runs: "index" (src/index.js) or "part000"
    uniqueKey,         \* the store has a unique constraint on (user_id, digest_date)
    users,             \* rows of the users view with sms_consent = true
    now,               \* the current instant (what new Date() returns)
    ticks,             \* clock advances so far
    runs,              \* invocations of the job started so far
    daily_digest_sms,  \* the DigestRecord table: a bag of [user_id, digest_date]
    delivered,         \* messages the provider accepted: [run, user_id, date],
                       \* date being the local date the run computed for the user
    proc,              \* per process: position in main(), its locals, its
                       \* job_runs row, and the calls it made
    phone,             \* input of formatToE164 (SpecPhone)
    formatted,         \* its result (SpecPhone)
    lm,                \* input of the window check (SpecWin)
    win                \* its result (SpecWin)

vars == <<variant, uniqueKey, users, now, ticks, runs, daily_digest_sms,
          delivered, proc, phone, formatted, lm, win>>

pureVars == <<phone, formatted, lm, win>>

-----------------------------------------------------------------------------
(* Bounds of the model *)

MaxUsers == 2      \* rows in the users view
MaxRuns == 2       \* invocations of the job in one behaviour
MaxTicks == 2      \* clock advances in one behaviour
MaxDigits == 12    \* digits in a phone number given to formatToE164

-----------------------------------------------------------------------------
(* Strings *)

Null == << >>

Digits == {"0", "1", "2", "3", "4", "5", "6", "7", "8", "9"}

\* phone.replace(/[^\d]/g, '')
RECURSIVE StripNonDigits(_)
StripNonDigits(s) ==
    IF s = << >> THEN << >>
    ELSE IF Head(s) \in Digits THEN <<Head(s)>> \o StripNonDigits(Tail(s))
         ELSE StripNonDigits(Tail(s))

startsWith(s, c) == Len(s) > 0 /\ s[1] = c

\* A plausible slip: formatToE164 without its first line.
formatToE164_NoNullCheck(p) ==
    LET cleaned == StripNonDigits(p) IN
    IF Len(cleaned) = 10 THEN <<"+", "1">> \o cleaned
    ELSE IF Len(cleaned) = 11 /\ startsWith(cleaned, "1") THEN <<"+">> \o cleaned
    ELSE IF startsWith(p, "+") THEN p
    ELSE <<"+">> \o cleaned

formatToE164(p) ==
    IF p = Null THEN Null
    ELSE LET cleaned == StripNonDigits(p) IN
         IF Len(cleaned) = 10 THEN <<"+", "1">> \o cleaned
         ELSE IF Len(cleaned) = 11 /\ startsWith(cleaned, "1") THEN <<"+">> \o cleaned
         ELSE IF startsWith(p, "+") THEN p
         ELSE <<"+">> \o cleaned

LowerTable == [c \in {"A", "B", "C", "X"} |->
                 CASE c = "A" -> "a" [] c = "B" -> "b" [] c = "C" -> "c" [] c = "X" -> "x"]

\* String.prototype.toLowerCase
toLowerCase(s) ==
    [i \in 1..Len(s) |-> IF s[i] \in DOMAIN LowerTable THEN LowerTable[s[i]] ELSE s[i]]

-----------------------------------------------------------------------------
(* Local time *)

MinutesPerDay == 24 * 60

\* The IANA identifiers the runtime knows, with their UTC offsets in minutes
\* (standard time). The two are 12 hours apart.
TzOffset == [tz \in {"America/New_York", "Asia/Bangkok"} |->
               IF tz = "America/New_York" THEN -300 ELSE 420]

NoTimezone == ""
BadTimezone == "Mars/Phobos"

ValidTimezone(tz) == tz \in DOMAIN TzOffset

LocalMinuteOfDay(tz, t) == (t + TzOffset[tz]) % MinutesPerDay

\* new Intl.DateTimeFormat('en-CA', { timeZone }).format(new Date()): YYYY-MM-DD,
\* here the day number. Throws RangeError for an unknown identifier: the
\* callers test ValidTimezone first.
LocalDate(tz, t) == (t + TzOffset[tz]) \div MinutesPerDay

\* A plausible slip: the timeZone option left out, so that every user gets the
\* clock of UTC.
getLocalHourMinute_Utc(tz, t) ==
    IF ~ValidTimezone(tz) THEN [null |-> TRUE, hour |-> 0, minute |-> 0]
    ELSE [null |-> FALSE,
          hour |-> (t % MinutesPerDay) \div 60,
          minute |-> (t % MinutesPerDay) % 60]

\* null when Intl.DateTimeFormat throws (the catch), else {hour, minute}.
\* (Some runtimes print midnight as hour 24 under hour12: false; no check of
\* the job tells hour 0 from hour 24, so hours are 0..23 here.)
getLocalHourMinute(tz, t) ==
    IF ~ValidTimezone(tz) THEN [null |-> TRUE, hour |-> 0, minute |-> 0]
    ELSE [null |-> FALSE,
          hour |-> LocalMinuteOfDay(tz, t) \div 60,
          minute |-> LocalMinuteOfDay(tz, t) % 60]

WindowHour == 19
WindowMinutesIndex == 5
WindowMinutesPart000 == 10

\* A plausible slip: the upper bound taken inclusive.
InWindow_Inclusive(v, l) ==
    IF v = "index"
    THEN l.hour = WindowHour /\ l.minute >= 0 /\ l.minute <= WindowMinutesIndex
    ELSE l.hour = WindowHour /\ l.minute <= WindowMinutesPart000

\* index.js: lm.hour === 19 && lm.minute >= 0 && lm.minute < windowMinutes
\* part_000: (lm.hour === 19 && lm.minute < 10)
InWindow(v, l) ==
    IF v = "index"
    THEN l.hour = WindowHour /\ l.minute >= 0 /\ l.minute < WindowMinutesIndex
    ELSE l.hour = WindowHour /\ l.minute < WindowMinutesPart000

\* index.js inSevenPmWindow(timezone, 5)
inSevenPmWindow(tz, t) ==
    LET l == getLocalHourMinute(tz, t) IN
    IF l.null THEN [ok |-> FALSE, reason |-> "no_local_time", time |-> "n/a"]
    ELSE [ok |-> InWindow("index", l), reason |-> "", time |-> <<l.hour, l.minute>>]

-----------------------------------------------------------------------------
(* The store's users view and the environment of one invocation *)

Procs == {1, 2}

\* Rows the users view may hold. Phones and e-mails are character sequences.
UserPool == {
    [id |-> 1, email |-> <<"A", "@", "x">>, timezone |-> "America/New_York",
     phone |-> <<"(", "5", "5", "5", ")", "1", "2", "3", "-", "4", "5", "6", "7">>],
    [id |-> 2, email |-> <<"b", "@", "x">>, timezone |-> "Asia/Bangkok",
     phone |-> <<"1", "5", "5", "5", "1", "2", "3", "4", "5", "6", "8">>],
    [id |-> 3, email |-> Null, timezone |-> NoTimezone,
     phone |-> <<"5", "5", "5", "1", "2", "3", "4", "5", "6", "9">>],
    [id |-> 4, email |-> <<"c", "@", "x">>, timezone |-> BadTimezone,
     phone |-> <<"5", "5", "5", "1", "2", "3", "4", "5", "6", "0">>],
    [id |-> 5, email |-> <<"a", "@", "X">>, timezone |-> "America/New_York",
     phone |-> Null] }

\* The users view: up to MaxUsers distinct rows, in any order.
UserTables ==
    {t \in UNION {[1..n -> UserPool] : n \in 1..MaxUsers} :
        \A i, j \in DOMAIN t : i # j => t[i].id # t[j].id}

\* process.env.TARGET_EMAIL || ''
TargetEmails == {Null, <<"a", "@", "X">>}

\* 03:00 and 18:59 in New York
StartInstants == {480, 1439}
Deltas == {1, 720}

NoRow == [created |-> FALSE, updates |-> 0, attempted |-> 0, sent |-> 0, skipped |-> 0]

ProcInit ==
    [pc |-> "idle", run |-> 0, envOk |-> TRUE, FORCE_SEND |-> FALSE,
     TARGET_EMAIL |-> Null, jrCreate |-> 0, usersError |-> FALSE,
     targetList |-> << >>, idx |-> 0,
     attempted |-> 0, sent |-> 0, skipped |-> 0, errors |-> << >>, log |-> << >>,
     today |-> 0, existErr |-> FALSE, exitCode |-> -1,
     job_runs |-> NoRow, lookups |-> {}, twilio |-> {}]

JobInit ==
    /\ variant \in {"index", "part000"}
    /\ uniqueKey \in BOOLEAN
    /\ users \in UserTables
    /\ now \in StartInstants
    /\ ticks = 0
    /\ runs = 0
    /\ daily_digest_sms = EmptyBag
    /\ delivered = {}
    /\ proc = [p \in Procs |-> ProcInit]

PureIdle ==
    /\ phone = Null
    /\ formatted = [done |-> FALSE, value |-> Null]
    /\ lm = [hour |-> 0, minute |-> 0]
    /\ win = [done |-> FALSE, value |-> FALSE]

Init == JobInit /\ PureIdle

-----------------------------------------------------------------------------
(* main() *)

Running(p) == proc[p].pc \notin {"idle", "exited"}

\* The user of the current loop iteration
CurUser(p) == proc[p].targetList[proc[p].idx]

\* A plausible slip: the loop stepping over the user after this one.
Continue_SkipNext(r) ==
    [r EXCEPT !.idx = @ + 2,
              !.today = 0,
              !.existErr = FALSE,
              !.pc = IF r.idx + 2 > Len(r.targetList) THEN "updateJobRun" ELSE "user"]

\* continue / end of the loop body: the next user, or past the loop
Continue(r) ==
    [r EXCEPT !.idx = @ + 1,
              !.today = 0,
              !.existErr = FALSE,
              !.pc = IF r.idx + 1 > Len(r.targetList) THEN "updateJobRun" ELSE "user"]

\* errors.push({ user, reason }) / errors.push({ user, error }); id is the user's
\* id, kept beside the e-mail the code stores
Entry(u, reason, error) ==
    [id |-> u.id, user |-> u.email, reason |-> reason, error |-> error]

\* console.log for one user
LogLine(u, msg) == [id |-> u.id, msg |-> msg]

\* A plausible slip: the e-mails compared as they are written.
TargetList_CaseSensitive(us, target) ==
    IF target = Null THEN us
    ELSE SelectSeq(us, LAMBDA u : u.email # Null /\ u.email = target)

\* users.filter(u => u.email && u.email.toLowerCase() === TARGET_EMAIL.toLowerCase())
TargetList(us, target) ==
    IF target = Null THEN us
    ELSE SelectSeq(us, LAMBDA u : u.email # Null
                                  /\ toLowerCase(u.email) = toLowerCase(target))

\* A new process: the module top level. The environment is read; without the
\* store's URL and credential the process exits with 1.
Start(p, seq) ==
    /\ ~Running(p)
    /\ seq => \A q \in Procs : ~Running(q)
    /\ p = 1 \/ proc[1].run # 0      \* the processes are alike: 1 is the first
    /\ runs < MaxRuns
    /\ runs' = runs + 1
    /\ \E envOk \in BOOLEAN, force \in BOOLEAN, target \in TargetEmails :
         proc' = [proc EXCEPT ![p] =
                    [ProcInit EXCEPT !.run = runs + 1,
                                     !.envOk = envOk,
                                     !.FORCE_SEND = force,
                                     !.TARGET_EMAIL = target,
                                     !.pc = IF envOk THEN "createJobRun" ELSE "exited",
                                     !.exitCode = IF envOk THEN -1 ELSE 1]]
    /\ UNCHANGED <<variant, uniqueKey, users, now, ticks, daily_digest_sms,
                   delivered, pureVars>>

\* A plausible slip: the run given up when the job_runs row cannot be created.
CreateJobRun_FatalOnError(p) ==
    /\ proc[p].pc = "createJobRun"
    /\ \E ok \in BOOLEAN :
         proc' = [proc EXCEPT ![p].job_runs.created = ok,
                              ![p].jrCreate = IF ok THEN proc[p].run ELSE 0,
                              ![p].pc = IF ok THEN "fetchUsers" ELSE "exited",
                              ![p].exitCode = IF ok THEN -1 ELSE 1]
    /\ UNCHANGED <<variant, uniqueKey, users, now, ticks, runs, daily_digest_sms,
                   delivered, pureVars>>

\* create a job_runs row; a failure is only warned about
CreateJobRun(p) ==
    /\ proc[p].pc = "createJobRun"
    /\ \E ok \in BOOLEAN :
         proc' = [proc EXCEPT ![p].job_runs.created = ok,
                              ![p].jrCreate = IF ok THEN proc[p].run ELSE 0,
                              ![p].pc = "fetchUsers"]
    /\ UNCHANGED <<variant, uniqueKey, users, now, ticks, runs, daily_digest_sms,
                   delivered, pureVars>>

\* A plausible slip: the failed query logged, and the run going on without
\* users.
FetchUsers_NoExit(p) ==
    /\ proc[p].pc = "fetchUsers"
    /\ \E error \in BOOLEAN :
         LET list == IF error THEN << >>
                     ELSE TargetList(users, proc[p].TARGET_EMAIL) IN
         proc' = [proc EXCEPT ![p].usersError = error,
                              ![p].targetList = list,
                              ![p].idx = 1,
                              ![p].pc = IF list = << >> THEN "updateJobRun"
                                        ELSE "user"]
    /\ UNCHANGED <<variant, uniqueKey, users, now, ticks, runs, daily_digest_sms,
                   delivered, pureVars>>

\* fetch users who consented, filter by TARGET_EMAIL, zero the counters
FetchUsers(p) ==
    /\ proc[p].pc = "fetchUsers"
    /\ \E error \in BOOLEAN :
         IF error
         THEN proc' = [proc EXCEPT ![p].usersError = TRUE,
                                   ![p].pc = "exited",
                                   ![p].exitCode = 1]
         ELSE LET list == TargetList(users, proc[p].TARGET_EMAIL) IN
              proc' = [proc EXCEPT ![p].targetList = list,
                                   ![p].idx = 1,
                                   ![p].pc = IF list = << >> THEN "updateJobRun"
                                             ELSE "user"]
    /\ UNCHANGED <<variant, uniqueKey, users, now, ticks, runs, daily_digest_sms,
                   delivered, pureVars>>

\* A plausible slip: the loop body without its first check.
BeginUserIndex_NoTimezoneCheck(r, u, t) ==
    LET a == [r EXCEPT !.attempted = @ + 1] IN
    IF ~r.FORCE_SEND /\ ~inSevenPmWindow(u.timezone, t).ok
    THEN Continue([a EXCEPT !.skipped = @ + 1,
                            !.errors = Append(@, Entry(u, "outside_window", ""))])
    ELSE IF ~ValidTimezone(u.timezone)
    THEN Continue([a EXCEPT !.errors =
                                Append(@, Entry(u, "", "Invalid time zone specified"))])
    ELSE [a EXCEPT !.today = LocalDate(u.timezone, t), !.pc = "lookup"]

\* The loop body up to the idempotency query: attempted++, the timezone and
\* window checks, and the user's local date. index.js, lines 113-132.
BeginUserIndex(r, u, t) ==
    LET a == [r EXCEPT !.attempted = @ + 1] IN
    IF u.timezone = NoTimezone
    THEN Continue([a EXCEPT !.skipped = @ + 1,
                            !.errors = Append(@, Entry(u, "no_timezone", ""))])
    ELSE IF ~r.FORCE_SEND /\ ~inSevenPmWindow(u.timezone, t).ok
    THEN Continue([a EXCEPT !.skipped = @ + 1,
                            !.errors = Append(@, Entry(u, "outside_window", ""))])
    ELSE IF ~ValidTimezone(u.timezone)
    \* new Intl.DateTimeFormat('en-CA', ...) throws RangeError: the catch
    THEN Continue([a EXCEPT !.errors =
                                Append(@, Entry(u, "", "Invalid time zone specified"))])
    ELSE [a EXCEPT !.today = LocalDate(u.timezone, t), !.pc = "lookup"]

\* The same in part_000, lines 105-128.
BeginUserPart000(r, u, t) ==
    LET a == [r EXCEPT !.attempted = @ + 1] IN
    IF u.timezone = NoTimezone
    THEN Continue([a EXCEPT !.skipped = @ + 1,
                            !.log = Append(@, LogLine(u, "no timezone"))])
    ELSE IF getLocalHourMinute(u.timezone, t).null
    THEN Continue([a EXCEPT !.skipped = @ + 1,
                            !.log = Append(@, LogLine(u, "couldn't compute local time"))])
    ELSE IF ~r.FORCE_SEND /\ ~InWindow("part000", getLocalHourMinute(u.timezone, t))
    THEN Continue([a EXCEPT !.skipped = @ + 1])
    ELSE [a EXCEPT !.today = LocalDate(u.timezone, t), !.pc = "lookup"]

BeginUser(p) ==
    /\ proc[p].pc = "user"
    /\ proc' = [proc EXCEPT ![p] =
                  IF variant = "index" THEN BeginUserIndex(proc[p], CurUser(p), now)
                  ELSE BeginUserPart000(proc[p], CurUser(p), now)]
    /\ UNCHANGED <<variant, uniqueKey, users, now, ticks, runs, daily_digest_sms,
                   delivered, pureVars>>

DigestKey(u, date) == [user_id |-> u.id, digest_date |-> date]

\* What the code does with the answer {data: existing, error: existErr} of the
\* idempotency query. index.js throws on existErr; part_000 does not read it
\* (existing is then null and the send goes on).
AfterLookup(v, r, u, existErr, found) ==
    IF v = "index" /\ existErr
    THEN Continue([r EXCEPT !.errors = Append(@, Entry(u, "", "query_existing_failed"))])
    ELSE IF ~existErr /\ found
    THEN Continue([r EXCEPT !.skipped = @ + 1,
                            !.log = Append(@, LogLine(u, "Already sent today"))])
    ELSE [r EXCEPT !.pc = "send"]

\* idempotency: select from daily_digest_sms where user_id, digest_date, limit 1
Lookup(p) ==
    /\ proc[p].pc = "lookup"
    /\ LET u == CurUser(p)
           key == DigestKey(u, proc[p].today)
           r == [proc[p] EXCEPT !.lookups = @ \cup {key}]
       IN \E existErr \in BOOLEAN :
            proc' = [proc EXCEPT ![p] =
                       AfterLookup(variant, [r EXCEPT !.existErr = existErr], u,
                                   existErr, BagIn(key, daily_digest_sms))]
    /\ UNCHANGED <<variant, uniqueKey, users, now, ticks, runs, daily_digest_sms,
                   delivered, pureVars>>

\* A plausible slip: the provider's failure taken for a delivery.
AfterSend_IgnoringFailure(r, u, ok) == [r EXCEPT !.pc = "insert"]

\* What main() does with the outcome of sendTwilioSms: on a throw the catch
\* pushes the error and the loop goes on; otherwise the insert follows.
AfterSend(r, u, ok) ==
    IF ok THEN [r EXCEPT !.pc = "insert"]
    ELSE Continue([r EXCEPT !.errors = Append(@, Entry(u, "", "Twilio error"))])

\* sendTwilioSms(u.phone, body): throws 'invalid phone' before any request when
\* the phone does not format; throws 'Twilio error' when the response is not ok.
Send(p) ==
    /\ proc[p].pc = "send"
    /\ LET u == CurUser(p)
           to == formatToE164(u.phone)
       IN IF to = Null
          THEN /\ proc' = [proc EXCEPT ![p] =
                             Continue([proc[p] EXCEPT !.errors =
                                         Append(@, Entry(u, "", "invalid phone"))])]
               /\ UNCHANGED delivered
          ELSE \E ok \in BOOLEAN :
               LET date == proc[p].today
                   r == [proc[p] EXCEPT !.twilio = @ \cup
                           {[user_id |-> u.id, To |-> to, date |-> date, ok |-> ok]}]
               IN /\ delivered' = IF ok
                                  THEN delivered \cup {[run |-> r.run, user_id |-> u.id,
                                                        date |-> date]}
                                  ELSE delivered
                  /\ proc' = [proc EXCEPT ![p] = AfterSend(r, u, ok)]
    /\ UNCHANGED <<variant, uniqueKey, users, now, ticks, runs, daily_digest_sms, pureVars>>

\* The store's answer to the insert: refused when the unique constraint on
\* (user_id, digest_date) is there and the key exists; otherwise it may still
\* fail (network, permissions).
InsertMayFail(key) == IF uniqueKey /\ BagIn(key, daily_digest_sms) THEN {FALSE} ELSE BOOLEAN

\* What main() does once the awaited insert has answered: the answer's error is
\* not read (supabase-js resolves with {error}, it does not throw).
AfterInsert(r, u, ok) ==
    Continue([r EXCEPT !.sent = @ + 1, !.log = Append(@, LogLine(u, "Sent"))])

\* A plausible slip: an upsert on user_id, which replaces the user's records
\* of other days.
Insert_Upsert(p) ==
    /\ proc[p].pc = "insert"
    /\ LET u == CurUser(p)
           key == DigestKey(u, proc[p].today)
           others == {k \in BagToSet(daily_digest_sms) : k.user_id # u.id}
       IN \E ok \in InsertMayFail(key) :
            /\ daily_digest_sms' =
                  IF ok THEN [k \in others \cup {key} |->
                                IF k = key THEN 1 ELSE CopiesIn(k, daily_digest_sms)]
                  ELSE daily_digest_sms
            /\ proc' = [proc EXCEPT ![p] = AfterInsert(proc[p], u, ok)]
    /\ UNCHANGED <<variant, uniqueKey, users, now, ticks, runs, delivered, pureVars>>

\* insert into daily_digest_sms (user_id, digest_date, sent_at); sent++
Insert(p) ==
    /\ proc[p].pc = "insert"
    /\ LET u == CurUser(p)
           key == DigestKey(u, proc[p].today)
       IN \E ok \in InsertMayFail(key) :
            /\ daily_digest_sms' = IF ok THEN daily_digest_sms (+) SetToBag({key})
                                   ELSE daily_digest_sms
            /\ proc' = [proc EXCEPT ![p] = AfterInsert(proc[p], u, ok)]
    /\ UNCHANGED <<variant, uniqueKey, users, now, ticks, runs, delivered, pureVars>>

\* update job_runs with results (only when the row was created; the answer is
\* not read), then process.exit(0)
UpdateJobRun(p) ==
    /\ proc[p].pc = "updateJobRun"
    /\ \E ok \in BOOLEAN :
         LET r == [proc[p] EXCEPT !.pc = "exited", !.exitCode = 0] IN
         proc' = [proc EXCEPT ![p] =
                    IF r.jrCreate # 0 /\ ok
                    THEN [r EXCEPT !.job_runs =
                            [@ EXCEPT !.updates = @ + 1,
                                      !.attempted = r.attempted,
                                      !.sent = r.sent,
                                      !.skipped = r.skipped]]
                    ELSE r]
    /\ UNCHANGED <<variant, uniqueKey, users, now, ticks, runs, daily_digest_sms,
                   delivered, pureVars>>

\* Time passes. Only the top of the loop body reads the clock (the window
\* check and the local date, both from new Date()), so it is enough to let
\* time pass right before that step.
Tick ==
    /\ ticks < MaxTicks
    /\ \E p \in Procs : proc[p].pc = "user"
    /\ \E d \in Deltas : now' = now + d
    /\ ticks' = ticks + 1
    /\ UNCHANGED <<variant, uniqueKey, users, runs, daily_digest_sms, delivered,
                   proc, pureVars>>

\* Invocations one after the other, as the scheduler starts them.
Next ==
    \/ Start(1, TRUE)
    \/ CreateJobRun(1)
    \/ FetchUsers(1)
    \/ BeginUser(1)
    \/ Lookup(1)
    \/ Send(1)
    \/ Insert(1)
    \/ UpdateJobRun(1)
    \/ Tick

Spec == Init /\ [][Next]_vars

\* One invocation, started on a store that may already hold the DigestRecord
\* of an earlier invocation of the same local day for some of the users.
EarlierRecords(us, t) ==
    {SetToBag({DigestKey(us[i], LocalDate(us[i].timezone, t)) : i \in I}) :
        I \in SUBSET {i \in DOMAIN us : ValidTimezone(us[i].timezone)}}

InitRun ==
    /\ variant \in {"index", "part000"}
    /\ uniqueKey \in BOOLEAN
    /\ users \in UserTables
    /\ now \in StartInstants
    /\ ticks = 0
    /\ runs = 0
    /\ daily_digest_sms \in EarlierRecords(users, now)
    /\ delivered = {[run |-> 0, user_id |-> k.user_id, date |-> k.digest_date] :
                       k \in BagToSet(daily_digest_sms)}
    /\ proc = [p \in Procs |-> ProcInit]
    /\ PureIdle

StartOnce ==
    /\ runs = 0
    /\ Start(1, TRUE)

NextRun ==
    \/ StartOnce
    \/ CreateJobRun(1)
    \/ FetchUsers(1)
    \/ BeginUser(1)
    \/ Lookup(1)
    \/ Send(1)
    \/ Insert(1)
    \/ UpdateJobRun(1)
    \/ Tick

SpecRun == InitRun /\ [][NextRun]_vars

\* The steps of the process. Every request the process awaits is answered
\* (with a result or an error) and the event loop then runs the continuation:
\* a step that is possible is taken.
LoopStep ==
    \/ CreateJobRun(1)
    \/ FetchUsers(1)
    \/ BeginUser(1)
    \/ Lookup(1)
    \/ Send(1)
    \/ Insert(1)
    \/ UpdateJobRun(1)

\* One invocation with no time passing between its steps
NextLoop ==
    \/ StartOnce
    \/ CreateJobRun(1)
    \/ FetchUsers(1)
    \/ BeginUser(1)
    \/ Lookup(1)
    \/ Send(1)
    \/ Insert(1)
    \/ UpdateJobRun(1)

SpecOnce == InitRun /\ [][NextLoop]_vars

SpecFair == SpecOnce /\ WF_vars(LoopStep)

\* Invocations that may overlap.
NextConc ==
    \/ \E p \in Procs : Start(p, FALSE)
    \/ \E p \in Procs : CreateJobRun(p)
    \/ \E p \in Procs : FetchUsers(p)
    \/ \E p \in Procs : BeginUser(p)
    \/ \E p \in Procs : Lookup(p)
    \/ \E p \in Procs : Send(p)
    \/ \E p \in Procs : Insert(p)
    \/ \E p \in Procs : UpdateJobRun(p)

\* ... against a store with the unique constraint on (user_id, digest_date)
InitConc == Init /\ uniqueKey

SpecConc == InitConc /\ [][NextConc]_vars

-----------------------------------------------------------------------------
(* formatToE164 and the window check on their own inputs *)

JobIdle ==
    /\ uniqueKey = TRUE
    /\ users = << >>
    /\ now = 0
    /\ ticks = 0
    /\ runs = 0
    /\ daily_digest_sms = EmptyBag
    /\ delivered = {}
    /\ proc = [p \in Procs |-> ProcInit]

RECURSIVE Fives(_)
Fives(n) == IF n <= 0 THEN << >> ELSE <<"5">> \o Fives(n - 1)

\* s with c put in after its first k characters
InsertAt(s, k, c) ==
    [i \in 1..(Len(s) + 1) |-> IF i <= k THEN s[i] ELSE IF i = k + 1 THEN c ELSE s[i - 1]]

\* Phone numbers as users type them: up to MaxDigits digits, the first one 1 or
\* 4, with or without a leading "+", with or without one "-" or " " somewhere;
\* and the empty string.
PhoneInputs ==
    LET digits == {<<d>> \o Fives(n - 1) : d \in {"1", "4"}, n \in 1..MaxDigits}
                     \cup {<< >>}
        places == {<<s, k>> \in digits \X (0..MaxDigits) : k <= Len(s)}
        punct == digits \cup {InsertAt(x[1], x[2], c) : x \in places, c \in {"-", " "}}
    IN punct \cup {<<"+">> \o s : s \in punct}

InitPhone ==
    /\ JobIdle
    /\ variant = "index"
    /\ phone \in PhoneInputs
    /\ formatted = [done |-> FALSE, value |-> Null]
    /\ lm = [hour |-> 0, minute |-> 0]
    /\ win = [done |-> FALSE, value |-> FALSE]

FormatPhone ==
    /\ ~formatted.done
    /\ formatted' = [done |-> TRUE, value |-> formatToE164(phone)]
    /\ UNCHANGED <<variant, uniqueKey, users, now, ticks, runs, daily_digest_sms,
                   delivered, proc, phone, lm, win>>

NextPhone == FormatPhone

SpecPhone == InitPhone /\ [][NextPhone]_vars

InitWin ==
    /\ JobIdle
    /\ variant \in {"index", "part000"}
    /\ phone = Null
    /\ formatted = [done |-> FALSE, value |-> Null]
    /\ lm \in [hour : 0..23, minute : 0..59]
    /\ win = [done |-> FALSE, value |-> FALSE]

EvalWindow ==
    /\ ~win.done
    /\ win' = [done |-> TRUE, value |-> InWindow(variant, lm)]
    /\ UNCHANGED <<variant, uniqueKey, users, now, ticks, runs, daily_digest_sms,
                   delivered, proc, phone, formatted, lm>>

NextWin == EvalWindow

SpecWin == InitWin /\ [][NextWin]_vars

-----------------------------------------------------------------------------
(* Two users, 12 hours apart, at one and the same instant *)

\* A user in New York and a user in Bangkok
TwoZones ==
    <<CHOOSE u \in UserPool : u.id = 1, CHOOSE u \in UserPool : u.id = 2>>

\* Every minute of two days
TzInstants == 300..(300 + 2 * MinutesPerDay - 1)

\* The top of the loop body for the user at position i at instant t
TopOfBody(v, force, i, t) ==
    LET r == [ProcInit EXCEPT !.pc = "user", !.run = 1, !.FORCE_SEND = force,
                              !.targetList = users, !.idx = i]
    IN IF v = "index" THEN BeginUserIndex(r, users[i], t)
       ELSE BeginUserPart000(r, users[i], t)

InitTz ==
    /\ variant \in {"index", "part000"}
    /\ uniqueKey = TRUE
    /\ users = TwoZones
    /\ now \in TzInstants
    /\ ticks = 0
    /\ runs = 0
    /\ daily_digest_sms = EmptyBag
    /\ delivered = {}
    /\ proc = [p \in Procs |-> ProcInit]
    /\ PureIdle

\* For each of the two: whether the window check lets the user through (no
\* FORCE_SEND), and the date the idempotency key gets (FORCE_SEND, so that the
\* date is computed at every instant)
EvalTz ==
    /\ ~win.done
    /\ win' = [done |-> TRUE,
               value |-> [i \in 1..2 |->
                   [inWindow |-> TopOfBody(variant, FALSE, i, now).pc = "lookup",
                    today |-> TopOfBody(variant, TRUE, i, now).today]]]
    /\ UNCHANGED <<variant, uniqueKey, users, now, ticks, runs, daily_digest_sms,
                   delivered, proc, phone, formatted, lm>>

NextTz == EvalTz

SpecTz == InitTz /\ [][NextTz]_vars

-----------------------------------------------------------------------------
(* What the claims speak of *)

\* The position of the user with this id in r's list, or 0
IndexOf(r, uid) ==
    IF \E i \in 1..Len(r.targetList) : r.targetList[i].id = uid
    THEN CHOOSE i \in 1..Len(r.targetList) : r.targetList[i].id = uid
    ELSE 0

\* The loop body has finished for the user at position i
Done(r, i) == i >= 1 /\ i < r.idx

\* What the run reported as the reason of a skip of this user: the reason of an
\* errors entry, or the console line of the skip
LogReason(msg) ==
    CASE msg = "no timezone" -> "no_timezone"
      [] msg = "couldn't compute local time" -> "invalid_timezone"
      [] msg = "Already sent today" -> "already_sent"
      [] OTHER -> ""

Reasons(r, uid) ==
    ({r.errors[i].reason : i \in {j \in 1..Len(r.errors) : r.errors[j].id = uid}}
       \cup {LogReason(r.log[i].msg) : i \in {j \in 1..Len(r.log) : r.log[j].id = uid}})
    \ {""}

\* The messages of the error entries ({user, error}) of this user
Failures(r, uid) ==
    {r.errors[i].error : i \in {j \in 1..Len(r.errors) : r.errors[j].id = uid}} \ {""}

Called(r, uid) == \E c \in r.twilio : c.user_id = uid

LoggedSent(r, uid) == \E i \in 1..Len(r.log) : r.log[i].id = uid /\ r.log[i].msg = "Sent"

\* C1: over sequential invocations, at most one message is delivered for any
\* (user id, local date) pair: two deliveries for the same pair are the same
\* delivery.
C1_AtMostOneDeliveryPerDay ==
    \A d1, d2 \in delivered :
        (d1.user_id = d2.user_id /\ d1.date = d2.date) => d1.run = d2.run

\* C2: when an earlier invocation delivered to a user on a local date and the
\* next invocation evaluates the same user on the same local date, it makes no
\* delivery call for that user and reports the skip as already sent, not a send
\* (a lookup that the run reports as failed is left aside).
C2_SecondRunAlreadySent ==
    \A p \in Procs :
        LET r == proc[p] IN
        \A key \in r.lookups :
            (\E d \in delivered : /\ d.run < r.run
                                  /\ d.user_id = key.user_id
                                  /\ d.date = key.digest_date)
            => /\ ~Called(r, key.user_id)
               /\ Done(r, IndexOf(r, key.user_id))
                    => /\ ~LoggedSent(r, key.user_id)
                       /\ \/ /\ Reasons(r, key.user_id) = {"already_sent"}
                             /\ Failures(r, key.user_id) = {}
                          \/ Failures(r, key.user_id) = {"query_existing_failed"}

\* C3: with invocations that overlap and a store that enforces uniqueness on
\* (user id, local date), at most one message is delivered and at most one
\* DigestRecord exists for any (user id, local date) pair.
C3_ConcurrentAtMostOne ==
    uniqueKey =>
        /\ \A d1, d2 \in delivered :
               (d1.user_id = d2.user_id /\ d1.date = d2.date) => d1 = d2
        /\ \A key \in BagToSet(daily_digest_sms) : CopiesIn(key, daily_digest_sms) <= 1

\* C4: with FORCE_SEND a user with a valid timezone always goes on from the
\* window step to the idempotency check, whatever the local time; from there a
\* user without a DigestRecord for the local date goes on to the send (unless
\* the lookup itself is reported as failed), and a user with one never does.
C4_ForceSendKeepsIdempotency ==
    [][\A p \in Procs :
         LET r == proc[p]
             r2 == proc'[p]
         IN (r.FORCE_SEND /\ r2 # r /\ r.pc \in {"user", "lookup"}) =>
              LET u == r.targetList[r.idx]
                  has == BagIn(DigestKey(u, r.today), daily_digest_sms)
              IN /\ (r.pc = "user" /\ ValidTimezone(u.timezone)) => r2.pc = "lookup"
                 /\ (r.pc = "lookup" /\ ~has)
                       => (r2.pc = "send" \/ Len(r2.errors) > Len(r.errors))
                 /\ (r.pc = "lookup" /\ has) => r2.pc # "send"]_vars

\* C5: an insert of the DigestRecord that fails after the delivery leaves the
\* user out of sent and adds an error entry for the user.
C5_InsertFailureSurfaced ==
    [][\A p \in Procs :
         LET r == proc[p]
             r2 == proc'[p]
         IN (r.pc = "insert" /\ r2.pc # "insert" /\ daily_digest_sms' = daily_digest_sms) =>
              /\ r2.sent = r.sent
              /\ Len(r2.errors) = Len(r.errors) + 1
              /\ r2.errors[Len(r2.errors)].id = r.targetList[r.idx].id]_vars

\* C6: when the provider call for a user fails, the user gets an error entry,
\* is counted neither as sent nor as skipped, no DigestRecord is written, and
\* the loop goes on with the next user; a run that ends has gone through every
\* user of its list.
AllUsersAttempted ==
    \A p \in Procs :
        proc[p].exitCode = 0 =>
            /\ proc[p].attempted = Len(proc[p].targetList)
            /\ proc[p].idx = Len(proc[p].targetList) + 1

C6_ProviderFailureContinues ==
    [][/\ \A p \in Procs :
            LET r == proc[p]
                r2 == proc'[p]
            IN (r.pc = "send" /\ \E c \in r2.twilio \ r.twilio : ~c.ok) =>
                 /\ r2.errors = Append(r.errors, Entry(r.targetList[r.idx], "", "Twilio error"))
                 /\ r2.sent = r.sent
                 /\ r2.skipped = r.skipped
                 /\ daily_digest_sms' = daily_digest_sms
                 /\ delivered' = delivered
                 /\ r2.idx = r.idx + 1
                 /\ r2.pc = IF r.idx < Len(r.targetList) THEN "user" ELSE "updateJobRun"
                 /\ r2.exitCode = -1
       /\ AllUsersAttempted']_vars

\* The provider failed for the first of two users, and the run went through
\* the second one and ended.
C6_Witness ==
    \E p \in Procs :
        LET r == proc[p] IN
        /\ Len(r.targetList) = 2
        /\ \E c \in r.twilio : c.user_id = r.targetList[1].id /\ ~c.ok
        /\ Failures(r, r.targetList[1].id) = {"Twilio error"}
        /\ r.attempted = 2
        /\ r.exitCode = 0

\* C7: a user whose timezone is set but unrecognized is skipped with reason
\* invalid_timezone, with or without FORCE_SEND: no other reason, no error
\* entry, no delivery call.
C7_InvalidTimezoneSkipped ==
    \A p \in Procs :
        LET r == proc[p] IN
        \A i \in 1..Len(r.targetList) :
            LET u == r.targetList[i] IN
            (Done(r, i) /\ u.timezone # NoTimezone /\ ~ValidTimezone(u.timezone)) =>
                /\ Reasons(r, u.id) = {"invalid_timezone"}
                /\ Failures(r, u.id) = {}
                /\ ~Called(r, u.id)

\* The local time of the claim's window, in minutes of the day: 19:00 to 19:04
\* in index.js, 19:00 to 19:09 in part_000, both ends included
WindowStart == 19 * 60
WindowEnd(v) == IF v = "index" THEN 19 * 60 + 4 ELSE 19 * 60 + 9

\* C8: without FORCE_SEND the loop body goes on to the idempotency lookup only
\* for a user whose local time is in the window; a user whose local time is
\* outside it is skipped with reason outside_window, and the loop body ends
\* there: no lookup, no delivery call, no DigestRecord.
C8_OutsideWindowSkipped ==
    [][\A p \in Procs :
         LET r == proc[p]
             r2 == proc'[p]
         IN (r.pc = "user" /\ r2 # r /\ ~r.FORCE_SEND
               /\ ValidTimezone(r.targetList[r.idx].timezone)) =>
              LET u == r.targetList[r.idx]
                  cur == LocalMinuteOfDay(u.timezone, now)
                  inside == WindowStart <= cur /\ cur <= WindowEnd(variant)
              IN /\ r2.pc = "lookup" => inside
                 /\ ~inside =>
                      /\ r2.skipped = r.skipped + 1
                      /\ r2.sent = r.sent
                      /\ r2.idx = r.idx + 1
                      /\ r2.lookups = r.lookups
                      /\ r2.twilio = r.twilio
                      /\ daily_digest_sms' = daily_digest_sms
                      /\ Reasons(r2, u.id) = {"outside_window"}]_vars

\* The same without the reason: what both files do.
OutsideWindowNeverSends ==
    [][\A p \in Procs :
         LET r == proc[p]
             r2 == proc'[p]
         IN (r.pc = "user" /\ r2 # r /\ ~r.FORCE_SEND
               /\ ValidTimezone(r.targetList[r.idx].timezone)) =>
              LET u == r.targetList[r.idx]
                  cur == LocalMinuteOfDay(u.timezone, now)
                  inside == WindowStart <= cur /\ cur <= WindowEnd(variant)
              IN /\ r2.pc = "lookup" <=> inside
                 /\ ~inside =>
                      /\ r2.skipped = r.skipped + 1
                      /\ r2.sent = r.sent
                      /\ r2.idx = r.idx + 1
                      /\ r2.lookups = r.lookups
                      /\ r2.twilio = r.twilio
                      /\ daily_digest_sms' = daily_digest_sms
                      /\ Reasons(r2, u.id) \subseteq {"outside_window"}]_vars

C10_Normalization ==
    formatted.done =>
        LET d == StripNonDigits(phone) IN
        formatted.value =
            IF phone = Null THEN Null
            ELSE IF startsWith(phone, "+") THEN phone
            ELSE IF Len(d) = 10 THEN <<"+", "1">> \o d
            ELSE IF Len(d) = 11 /\ startsWith(d, "1") THEN <<"+">> \o d
            ELSE <<"+">> \o d

\* The positions of r's list whose loop body has finished
DoneUsers(r) == {i \in 1..Len(r.targetList) : Done(r, i)}

\* ... with an error entry ({user, error}) in the error list
FailedUsers(r) == {i \in DoneUsers(r) : Failures(r, r.targetList[i].id) # {}}

\* ... counted in sent (sent++ and the "Sent" line go together)
SentUsers(r) == {i \in DoneUsers(r) : LoggedSent(r, r.targetList[i].id)}

\* The run delivered a message to this user and the user's DigestRecord for
\* the date of the delivery is in the store
DeliveredAndRecorded(r, uid) ==
    \E d \in delivered :
        /\ d.run = r.run
        /\ d.user_id = uid
        /\ BagIn([user_id |-> uid, digest_date |-> d.date], daily_digest_sms)

\* The counters of a completed run add up: attempted is the length of the
\* filtered list, and every user is counted in sent, or in skipped, or has an
\* error entry, never two of them.
CountersAddUp ==
    \A p \in Procs :
        LET r == proc[p] IN
        r.exitCode = 0 =>
            /\ r.attempted = Len(r.targetList)
            /\ SentUsers(r) \cap FailedUsers(r) = {}
            /\ r.sent = Cardinality(SentUsers(r))
            /\ r.attempted = r.sent + r.skipped + Cardinality(FailedUsers(r))

\* C11: at the end of a completed run, attempted is the number of users of the
\* filtered list and every one of them is accounted for in exactly one way:
\* counted in sent (then the message was delivered and the DigestRecord is
\* written), counted in skipped, or entered as a failure in the error list; so
\* attempted = sent + skipped + the number of failed users.
C11_EveryUserAccountedOnce ==
    /\ CountersAddUp
    /\ \A p \in Procs :
         LET r == proc[p] IN
         r.exitCode = 0 =>
            \A i \in SentUsers(r) : DeliveredAndRecorded(r, r.targetList[i].id)

\* The run made an idempotency lookup for this user
LookedUp(r, uid) == \E k \in r.lookups : k.user_id = uid

\* The store holds a DigestRecord of this user
Recorded(uid) == \E k \in BagToSet(daily_digest_sms) : k.user_id = uid

\* ... counted in skipped: every finished user is counted in exactly one of
\* sent, skipped and the failures, so the skipped ones are the rest
SkippedUsers(r) == DoneUsers(r) \ (SentUsers(r) \cup FailedUsers(r))

\* C12: a user without a timezone is counted in skipped and the reason
\* no_timezone is reported for the user, and nothing else: no error entry, no
\* idempotency lookup, no provider call, no DigestRecord.
C12_NoTimezoneSkipped ==
    \A p \in Procs :
        LET r == proc[p] IN
        /\ r.skipped = Cardinality(SkippedUsers(r))
        /\ \A i \in DoneUsers(r) :
             LET u == r.targetList[i] IN
             u.timezone = NoTimezone =>
                /\ i \in SkippedUsers(r)
                /\ Reasons(r, u.id) = {"no_timezone"}
                /\ ~LookedUp(r, u.id)
                /\ ~Called(r, u.id)
                /\ ~Recorded(u.id)

\* A run with FORCE_SEND has gone past a user without a timezone and ended.
C12_Witness ==
    \E p \in Procs :
        LET r == proc[p] IN
        /\ r.exitCode = 0
        /\ r.FORCE_SEND
        /\ r.skipped >= 1
        /\ \E i \in DoneUsers(r) : r.targetList[i].timezone = NoTimezone

\* The ids of the users of r's filtered list
ListIds(r) == {r.targetList[i].id : i \in 1..Len(r.targetList)}

\* The user's e-mail is the target's, letter case aside
SameEmail(u, target) ==
    /\ u.email # Null
    /\ Len(u.email) = Len(target)
    /\ \A i \in 1..Len(target) : toLowerCase(<<u.email[i]>>) = toLowerCase(<<target[i]>>)

\* Every id the run touched: lookups, provider calls, deliveries, error
\* entries, console lines
Touched(r) ==
    {k.user_id : k \in r.lookups}
      \cup {c.user_id : c \in r.twilio}
      \cup {d.user_id : d \in {e \in delivered : e.run = r.run}}
      \cup {r.errors[i].id : i \in 1..Len(r.errors)}
      \cup {r.log[i].id : i \in 1..Len(r.log)}

\* C13: with TARGET_EMAIL set, the users whose e-mail is not the target's
\* (letter case aside), those without an e-mail among them, are out of the run:
\* no lookup, no provider call, no DigestRecord, nothing in attempted, sent,
\* skipped or the errors. Without TARGET_EMAIL every fetched user is processed.
C13_SingleRecipientFilter ==
    \A p \in Procs :
        LET r == proc[p] IN
        r.idx >= 1 =>
            /\ \A i \in 1..Len(users) :
                 users[i].id \in ListIds(r)
                    <=> (r.TARGET_EMAIL = Null \/ SameEmail(users[i], r.TARGET_EMAIL))
            /\ Len(r.targetList) = Cardinality(ListIds(r))
            /\ Touched(r) \subseteq ListIds(r)
            /\ \A k \in BagToSet(daily_digest_sms) :
                 \/ k.user_id \in ListIds(r)
                 \/ \E d \in delivered :
                      d.run = 0 /\ d.user_id = k.user_id /\ d.date = k.digest_date
            /\ r.attempted <= Len(r.targetList)
            /\ r.sent + r.skipped + Cardinality(FailedUsers(r)) <= r.attempted
            /\ r.exitCode = 0 => r.attempted = Len(r.targetList)
            /\ r.TARGET_EMAIL = Null => r.targetList = users

\* TARGET_EMAIL is a@X; the table holds b@x and A@x; the run ended having sent
\* to the one and left the other out.
C13_Witness ==
    \E p \in Procs :
        LET r == proc[p] IN
        /\ r.exitCode = 0
        /\ r.TARGET_EMAIL # Null
        /\ Len(users) = 2
        /\ ListIds(r) = {1}
        /\ r.attempted = 1
        /\ r.sent = 1

\* C14: a user without a phone who reaches the send is failed: the error
\* entry 'invalid phone' is added for the user, no request goes to the
\* provider, no DigestRecord is written, sent and skipped stay as they are, and
\* the loop goes on with the next user.
C14_InvalidPhoneFailed ==
    [][\A p \in Procs :
         LET r == proc[p]
             r2 == proc'[p]
         IN (r.pc = "send" /\ r2 # r /\ r.targetList[r.idx].phone = Null) =>
              /\ r2.errors = Append(r.errors, Entry(r.targetList[r.idx], "", "invalid phone"))
              /\ r2.twilio = r.twilio
              /\ delivered' = delivered
              /\ daily_digest_sms' = daily_digest_sms
              /\ r2.sent = r.sent
              /\ r2.skipped = r.skipped
              /\ r2.log = r.log
              /\ r2.idx = r.idx + 1
              /\ r2.pc \in {"user", "updateJobRun"}]_vars

\* A run ended with the user without a phone failed, and nobody called.
C14_Witness ==
    \E p \in Procs :
        LET r == proc[p] IN
        /\ r.exitCode = 0
        /\ \E i \in FailedUsers(r) :
             /\ r.targetList[i].phone = Null
             /\ Failures(r, r.targetList[i].id) = {"invalid phone"}
             /\ ~Called(r, r.targetList[i].id)
             /\ LookedUp(r, r.targetList[i].id)

\* The store holds the DigestRecords it held when the invocation started, and
\* nothing was delivered since
StoreAsAtStart ==
    /\ \A d \in delivered : d.run = 0
    /\ daily_digest_sms =
         SetToBag({[user_id |-> d.user_id, digest_date |-> d.date] : d \in delivered})

\* The process made no idempotency lookup, no provider call and no
\* DigestRecord write, and has not entered the loop
NothingDone(r) ==
    /\ r.lookups = {}
    /\ r.twilio = {}
    /\ r.attempted = 0
    /\ r.errors = << >>
    /\ r.log = << >>
    /\ StoreAsAtStart

\* C15: when the users query fails the process is out with exit code 1 before
\* any lookup, provider call or DigestRecord write; without the store's URL or
\* credential it is out with exit code 1 at once, before the job_runs insert
\* and any other request. Nothing else ends a process with exit code 1.
C15_FatalExits ==
    \A p \in Procs :
        LET r == proc[p] IN
        r.run # 0 =>
            /\ ~r.envOk =>
                 /\ r.pc = "exited"
                 /\ r.exitCode = 1
                 /\ r.job_runs = NoRow
                 /\ r.jrCreate = 0
                 /\ ~r.usersError
                 /\ NothingDone(r)
            /\ r.usersError =>
                 /\ r.pc = "exited"
                 /\ r.exitCode = 1
                 /\ NothingDone(r)
            /\ r.exitCode = 1 => (~r.envOk \/ r.usersError)
            /\ r.pc \in {"createJobRun", "fetchUsers"} => NothingDone(r)

\* The users query failed after the job_runs row was created; the store holds
\* an earlier record, untouched.
C15_Witness ==
    \E p \in Procs :
        LET r == proc[p] IN
        /\ r.usersError
        /\ r.exitCode = 1
        /\ r.job_runs.created
        /\ daily_digest_sms # EmptyBag

\* The store's URL is missing: the process is out before the job_runs insert.
C15_WitnessEnv ==
    \E p \in Procs : proc[p].run # 0 /\ ~proc[p].envOk /\ proc[p].exitCode = 1

\* C16: the job_runs row is no condition of the run. Whether or not its insert
\* or its update succeeds, the process goes through every user of the filtered
\* list and ends with exit code 0 (only a missing environment or a failed
\* users query ends it with 1). The row is updated at most once per run, by
\* the run that created it, after the last user, with the final attempted,
\* sent and skipped.
C16_RunSummaryBestEffort ==
    \A p \in Procs :
        LET r == proc[p] IN
        r.run # 0 =>
            /\ r.exitCode = 1 => (~r.envOk \/ r.usersError)
            /\ r.exitCode = 0 =>
                 /\ r.idx = Len(r.targetList) + 1
                 /\ r.attempted = Len(r.targetList)
                 /\ DoneUsers(r) = 1..Len(r.targetList)
            /\ r.job_runs.updates <= 1
            /\ r.job_runs.updates = 1 =>
                 /\ r.job_runs.created
                 /\ r.pc = "exited"
                 /\ r.exitCode = 0
                 /\ r.job_runs.attempted = r.attempted
                 /\ r.job_runs.sent = r.sent
                 /\ r.job_runs.skipped = r.skipped
            /\ r.job_runs.updates = 0 =>
                 /\ r.job_runs.attempted = 0
                 /\ r.job_runs.sent = 0
                 /\ r.job_runs.skipped = 0

\* The job_runs insert failed, and the run went through its two users, sent to
\* one of them and ended with exit code 0.
C16_Witness ==
    \E p \in Procs :
        LET r == proc[p] IN
        /\ r.exitCode = 0
        /\ ~r.job_runs.created
        /\ r.attempted = 2
        /\ r.sent >= 1

\* The row was created and its update failed: the run ended with exit code 0.
C16_WitnessUpdateFailed ==
    \E p \in Procs :
        LET r == proc[p] IN
        /\ r.exitCode = 0
        /\ r.job_runs.created
        /\ r.job_runs.updates = 0
        /\ r.sent >= 1

\* The loop takes the users of the filtered list one by one, in the order of
\* the list: the body of position idx runs from its first step to its last
\* before idx moves, idx moves by one, the k-th attempt is the user at
\* position k, and every lookup and provider call of a step is for the user at
\* idx.
LoopInOrder ==
    \A p \in Procs :
        LET r == proc[p]
            r2 == proc'[p]
        IN (r.pc \in {"user", "lookup", "send", "insert"} /\ r2 # r) =>
             /\ r2.targetList = r.targetList
             /\ r2.exitCode = -1
             /\ r2.idx \in {r.idx, r.idx + 1}
             /\ r2.idx = r.idx =>
                  r2.pc = CASE r.pc = "user" -> "lookup"
                            [] r.pc = "lookup" -> "send"
                            [] r.pc = "send" -> "insert"
                            [] OTHER -> "none"
             /\ r2.idx = r.idx + 1 =>
                  r2.pc = IF r.idx = Len(r.targetList) THEN "updateJobRun" ELSE "user"
             /\ r2.attempted = IF r.pc = "user" THEN r.idx ELSE r.attempted
             /\ r.attempted = IF r.pc = "user" THEN r.idx - 1 ELSE r.idx
             /\ \A k \in r2.lookups \ r.lookups : k.user_id = r.targetList[r.idx].id
             /\ \A c \in r2.twilio \ r.twilio : c.user_id = r.targetList[r.idx].id

\* C17: once the users query has succeeded, the run ends with exit code 0,
\* having gone through each user of the filtered list exactly once, in the
\* order of the list, one user's steps finished before the next user's begin.
C17_RunTerminates ==
    /\ [][LoopInOrder]_vars
    /\ (proc[1].idx >= 1) ~>
          (/\ proc[1].exitCode = 0
           /\ proc[1].attempted = Len(proc[1].targetList)
           /\ proc[1].idx = Len(proc[1].targetList) + 1)

\* A run over two users has ended with exit code 0.
C17_Witness ==
    \E p \in Procs :
        /\ proc[p].exitCode = 0
        /\ Len(proc[p].targetList) = 2
        /\ proc[p].attempted = 2
        /\ Cardinality(proc[p].lookups) = 2

\* C18: at one and the same instant, of two users whose timezones are 12 hours
\* apart at most one is in the send window, and when the instant is on
\* different calendar days for the two (it is afternoon or evening in New York,
\* so already tomorrow in Bangkok) their idempotency dates differ, by one day;
\* otherwise they are the same day.
C18_PerUserTimezone ==
    win.done =>
        LET ny == win.value[1]
            bkk == win.value[2]
            nyMinute == (now - 300) % MinutesPerDay
        IN /\ ~(ny.inWindow /\ bkk.inWindow)
           /\ ny.inWindow <=> (WindowStart <= nyMinute /\ nyMinute <= WindowEnd(variant))
           /\ nyMinute >= 12 * 60 => bkk.today = ny.today + 1
           /\ nyMinute < 12 * 60 => bkk.today = ny.today

\* 19:02 of day 0 in New York, 07:02 of day 1 in Bangkok: the user in New York
\* is in the window, the other is not, and the dates differ.
C18_Witness ==
    /\ win.done
    /\ now = 19 * 60 + 2 + 300
    /\ win.value[1].inWindow
    /\ ~win.value[2].inWindow
    /\ win.value[1].today # win.value[2].today

\* What the claim asks of the steps of an iteration whose idempotency lookup
\* answered an error: the lookup step adds an error entry for the user and
\* ends the iteration, and no step of that iteration calls the provider or
\* counts the user in sent.
LookupErrorHandled ==
    \A p \in Procs :
        LET r == proc[p]
            r2 == proc'[p]
            u == r.targetList[r.idx]
        IN /\ (r.pc = "lookup" /\ r2 # r
                 /\ (r2.existErr \/ Failures(r2, u.id) # Failures(r, u.id))) =>
                /\ r2.pc \in {"user", "updateJobRun"}
                /\ Len(r2.errors) = Len(r.errors) + 1
                /\ r2.errors[Len(r2.errors)].id = u.id
                /\ r2.errors[Len(r2.errors)].error # ""
                /\ r2.sent = r.sent
           /\ (r.existErr /\ r2 # r) =>
                /\ r2.twilio = r.twilio
                /\ delivered' = delivered
                /\ r2.sent = r.sent

\* C19: when the idempotency lookup answers an error, no provider call is made
\* for that user in that run; the user gets an error entry and is not counted
\* in sent.
C19_LookupErrorNoDelivery == [][LookupErrorHandled]_vars

\* What a step may do to daily_digest_sms: nothing, or add one DigestRecord,
\* in the step that follows the provider's acceptance of the message for the
\* same user in the same iteration, under the key the iteration looked up.
OnlyInsertAfterDelivery ==
    /\ \A k \in BagToSet(daily_digest_sms) :
         CopiesIn(k, daily_digest_sms') >= CopiesIn(k, daily_digest_sms)
    /\ daily_digest_sms' # daily_digest_sms =>
         \E p \in Procs :
            LET r == proc[p]
                u == r.targetList[r.idx]
                key == [user_id |-> u.id, digest_date |-> r.today]
            IN /\ r.pc = "insert"
               /\ daily_digest_sms' = daily_digest_sms (+) SetToBag({key})
               /\ key \in r.lookups
               /\ [run |-> r.run, user_id |-> u.id, date |-> r.today] \in delivered
               /\ \E c \in r.twilio : c.user_id = u.id /\ c.ok
               /\ \A c \in r.twilio : c.user_id = u.id => c.ok
    /\ \A p \in Procs :
         LET r == proc[p]
             r2 == proc'[p]
         IN /\ (r2.pc = "insert" /\ r.pc # "insert") =>
                 /\ r.pc = "send"
                 /\ r2.idx = r.idx
                 /\ r2.today = r.today
                 /\ \E c \in r2.twilio \ r.twilio :
                      c.ok /\ c.user_id = r.targetList[r.idx].id
            /\ (r.pc \in {"user", "lookup", "send"} /\ r2 # r) =>
                 daily_digest_sms' = daily_digest_sms

\* C20: a DigestRecord is inserted only in the step right after a successful
\* provider delivery to the same user in the same iteration, under the key of
\* the iteration's lookup; no DigestRecord is ever updated or deleted; an
\* iteration that skips or fails before the delivery leaves the table as it is.
C20_InsertOnlyAfterDelivery == [][OnlyInsertAfterDelivery]_vars

\* The store held an earlier record of the user; after a day change the run
\* delivered again and added the record of the new day beside it.
C20_Witness ==
    \E p \in Procs :
        LET r == proc[p] IN
        /\ r.sent = 1
        /\ \E k1, k2 \in BagToSet(daily_digest_sms) :
             /\ k1.user_id = k2.user_id
             /\ k1.digest_date # k2.digest_date
             /\ [run |-> 0, user_id |-> k1.user_id, date |-> k1.digest_date] \in delivered
             /\ [run |-> r.run, user_id |-> k2.user_id, date |-> k2.digest_date] \in delivered

====
